---- MODULE Spec2Model ----
(***************************************************************************)
(* Subsidiary Search Automation (src/app.py): a Streamlit script that is   *)
(* re-executed from top to bottom after every user interaction.  The state *)
(* that survives from one execution to the next is st.session_state: the   *)
(* list `selections`, and the values of the keyed widgets `start_range`,   *)
(* `end_range` and `cb_<i>`.  One action of this model is one interaction  *)
(* together with the complete execution of the script that it triggers.    *)
(*                                                                         *)
(* Text is a sequence of tokens; a token is one character or a run of      *)
(* letters and digits.  Positions are 1-based here: row i of the model is  *)
(* index i-1 of the code.                                                  *)
(***************************************************************************)
EXTENDS Integers, Sequences, FiniteSets, TLC

\* Bound: the largest number of data lines of an uploaded file.
MaxRows == 3

VARIABLES
    uploaded_file,  \* the file held by st.file_uploader (NoFile when there is none)
    selections,     \* st.session_state.selections (<<>> while the key is absent)
    start_range,    \* st.session_state.start_range (NoValue while the key is absent)
    end_range,      \* st.session_state.end_range   (NoValue while the key is absent)
    cb,             \* the state of the checkbox widgets cb_0 .. cb_<n-1>
    message,        \* the outcome the last execution reported
    opened,         \* the URLs the last execution handed to window.open, in order
    event,          \* the interaction that triggered the last execution
    keyIdentity     \* TRUE when the installed framework identifies a keyed widget by its key alone

vars == <<uploaded_file, selections, start_range, end_range, cb, message, opened,
          event, keyIdentity>>

(***************************************************************************)
(* Text helpers                                                            *)
(***************************************************************************)
Whitespace == {" ", "\t"}

\* The missing-value marker of a data frame cell (numpy.nan).
NaN == <<"<NaN>">>

Min(a, b) == IF a < b THEN a ELSE b

RECURSIVE lstrip(_)
lstrip(s) == IF s # <<>> /\ Head(s) \in Whitespace THEN lstrip(Tail(s)) ELSE s

RECURSIVE rstrip(_)
rstrip(s) ==
    IF s # <<>> /\ s[Len(s)] \in Whitespace THEN rstrip(SubSeq(s, 1, Len(s) - 1)) ELSE s

\* str.strip()
strip(s) == rstrip(lstrip(s))

\* Series.astype(str) on an object column: a missing value becomes the text "nan".
astype_str(c) == IF c = NaN THEN <<"nan">> ELSE c

\* Pick with the selected links collected in reverse.
RECURSIVE Pick_reversed(_, _, _)
Pick_reversed(urls, flags, i) ==
    IF i > Len(flags) THEN <<>>
    ELSE IF flags[i] THEN Pick_reversed(urls, flags, i + 1) \o <<urls[i]>>
    ELSE Pick_reversed(urls, flags, i + 1)

\* [search_urls[i] for i, s in enumerate(flags) if s], from position i on.
RECURSIVE Pick(_, _, _)
Pick(urls, flags, i) ==
    IF i > Len(flags) THEN <<>>
    ELSE IF flags[i] THEN <<urls[i]>> \o Pick(urls, flags, i + 1)
    ELSE Pick(urls, flags, i + 1)

\* Slice with the 1-based start used as the 0-based index (search_urls[start:end]).
Slice_from_start(s, a, b) ==
    LET hi == IF b < Len(s) THEN b ELSE Len(s)
    IN IF a + 1 >= hi THEN <<>> ELSE SubSeq(s, a + 2, hi)

\* The Python slice s[a:b] with 0 <= a (0-based, half-open, clamped to the list).
Slice(s, a, b) ==
    LET hi == Min(b, Len(s))
    IN IF a >= hi THEN <<>> ELSE SubSeq(s, a + 1, hi)

(***************************************************************************)
(* Uploaded files.  A file is what the chosen separator splits it into: a  *)
(* header line and data lines of raw cells.                                *)
(***************************************************************************)
NoFile == [present |-> FALSE, header |-> <<>>, lines |-> <<>>]

GoodHeader == <<"Account Name", "Parent Name">>

Digit == <<"1", "2", "3", "4", "5", "6", "7", "8", "9">>

\* The account cell of data line k when it is filled in (padded, so that strip matters).
AcctCell(k) == <<" ", "Sub", Digit[k], " ">>
ParentCell == <<"Acme", " ", "Corp">>
EmptyCell == <<>>
BlankCell == <<" ">>

\* The data lines a file may hold at position k.
LineChoices(k) ==
    { <<AcctCell(k), ParentCell>>,     \* both fields present
      <<EmptyCell, ParentCell>>,       \* Account Name missing (",Acme Corp")
      <<BlankCell, ParentCell>>,       \* Account Name only whitespace
      <<AcctCell(k), EmptyCell>> }     \* Parent Name missing

RECURSIVE LinesOfLen(_)
LinesOfLen(n) ==
    IF n = 0 THEN {<<>>}
    ELSE {Append(l, c) : l \in LinesOfLen(n - 1), c \in LineChoices(n)}

\* Every file with the two columns and 1..MaxRows data lines.
GoodFiles == { [present |-> TRUE, header |-> GoodHeader, lines |-> l] :
                  l \in UNION {LinesOfLen(n) : n \in 1..MaxRows} }

\* n complete data lines.
FullFile(n) == [present |-> TRUE, header |-> GoodHeader,
                lines |-> [k \in 1..n |-> <<AcctCell(k), ParentCell>>]]

\* n data lines, the first with a blank Account Name.
BlankFirstFile(n) == [present |-> TRUE, header |-> GoodHeader,
                      lines |-> [k \in 1..n |-> IF k = 1 THEN <<BlankCell, ParentCell>>
                                                ELSE <<AcctCell(k), ParentCell>>]]

BadFiles ==
    { [present |-> TRUE, header |-> <<>>, lines |-> <<>>],               \* zero bytes
      [present |-> TRUE, header |-> GoodHeader, lines |-> <<>>],         \* header only
      [present |-> TRUE, header |-> <<"Account Name;Parent Name">>,
                         lines |-> << <<AcctCell(1) \o <<";">> \o ParentCell>> >>],  \* wrong separator
      [present |-> TRUE, header |-> <<"Account", "Parent Name">>,
                         lines |-> << <<AcctCell(1), ParentCell>> >>],   \* wrong column name
      [present |-> TRUE, header |-> <<"Parent Name", "Account Name">>,
                         lines |-> << <<BlankCell, BlankCell>> >>] }     \* nothing survives cleaning

\* The files a session uploads: for every size two files of different content, and
\* the files the loader refuses.
Files == {FullFile(n) : n \in 1..MaxRows} \cup {BlankFirstFile(n) : n \in 2..MaxRows}
            \cup BadFiles


(***************************************************************************)
(* Dataset loader (lines 38-76)                                            *)
(***************************************************************************)
\* pd.read_csv: an empty cell is read as a missing value.  status "error" stands
\* for the exception read_csv raises on a file without columns.
read_csv(file) ==
    IF file.header = <<>> THEN [status |-> "error", columns |-> <<>>, data |-> <<>>]
    ELSE [status  |-> "ok",
          columns |-> file.header,
          data    |-> [r \in DOMAIN file.lines |->
                         [c \in DOMAIN file.lines[r] |->
                            IF file.lines[r][c] = <<>> THEN NaN ELSE file.lines[r][c]]]]

\* df.empty or len(df.columns) < 2
empty_or_narrow(df) == Len(df.data) = 0 \/ Len(df.columns) = 0 \/ Len(df.columns) < 2

\* {'Account Name', 'Parent Name'}.issubset(df.columns)
has_schema(df) ==
    {"Account Name", "Parent Name"} \subseteq {df.columns[i] : i \in DOMAIN df.columns}

Col(df, name) == CHOOSE i \in DOMAIN df.columns : df.columns[i] = name

\* df[col].astype(str).str.strip(), then df.replace('', np.nan)
clean_cell(c) ==
    LET t == strip(astype_str(c)) IN IF t = <<>> THEN NaN ELSE t

RECURSIVE dropna(_)
dropna(rows) ==
    IF rows = <<>> THEN <<>>
    ELSE IF Head(rows).account = NaN \/ Head(rows).parent = NaN THEN dropna(Tail(rows))
    ELSE <<Head(rows)>> \o dropna(Tail(rows))

\* The data-cleaning block: the cleaned rows, re-indexed contiguously.
clean(df) ==
    dropna([r \in DOMAIN df.data |->
              [account |-> clean_cell(df.data[r][Col(df, "Account Name")]),
               parent  |-> clean_cell(df.data[r][Col(df, "Parent Name")])]])

\* The loader as a whole: the status of the attempt and, on success, the Dataset.
\* The check after cleaning (lines 70-72).
cleaned(rows) ==
    IF rows = <<>> THEN [status |-> "no_valid_data", df |-> <<>>]
    ELSE [status |-> "ok", df |-> rows]

\* The checks on the data frame read (lines 44-53), then the cleaning.
checked(df) ==
    IF df.status = "error" \/ empty_or_narrow(df)
       THEN [status |-> "read_error", df |-> <<>>]
    ELSE IF ~has_schema(df) THEN [status |-> "schema_error", df |-> <<>>]
    ELSE cleaned(clean(df))

load(file) == checked(read_csv(file))

(***************************************************************************)
(* Query formatter and link encoder (lines 18-23, 75-77)                   *)
(***************************************************************************)
create_search_query(account_name, parent_name) ==
    <<"Is", " ">> \o account_name
        \o <<" ", "a", " ", "subsidiary", " ", "of", " ", "the", " ">>
        \o parent_name \o <<"?">>

\* urllib.parse.quote_plus, token by token.
quote_token(t) ==
    CASE t = " "  -> "+"
      [] t = "?"  -> "%3F"
      [] t = "\t" -> "%09"
      [] t = ";"  -> "%3B"
      [] OTHER    -> t

quote_plus(q) == [i \in DOMAIN q |-> quote_token(q[i])]

create_google_search_url(query) == <<"https://www.google.com/search?q=">> \o quote_plus(query)

search_queries(df) ==
    [i \in DOMAIN df |-> create_search_query(df[i].account, df[i].parent)]

search_urls(df) ==
    [i \in DOMAIN df |->
        create_google_search_url(create_search_query(df[i].account, df[i].parent))]

(***************************************************************************)
(* Selection state (lines 85-93, 121-123, 146-154)                         *)
(***************************************************************************)
\* A keyed number_input whose key is not in the session state.
NoValue == 0

\* needs_init without the comparison of lengths ('selections' not in st.session_state).
needs_init_absent_only(sel, total) == Len(sel) = 0

\* len(st.session_state.get('selections', [])) != total  (an absent key reads as [])
needs_init(sel, total) == Len(sel) # total

\* session_init with end_range = 10 instead of min(10, total).
session_init_no_min(sel, st, en, total) ==
    IF Len(sel) # total
       THEN [selections  |-> [i \in 1..total |-> FALSE],
             start_range |-> 1,
             end_range   |-> 10]
       ELSE [selections |-> sel, start_range |-> st, end_range |-> en]

\* The initialisation block: the session state after lines 87-90.
session_init(sel, st, en, total) ==
    IF needs_init(sel, total)
       THEN [selections  |-> [i \in 1..total |-> FALSE],
             start_range |-> 1,
             end_range   |-> Min(10, total)]
       ELSE [selections |-> sel, start_range |-> st, end_range |-> en]

\* update_selections(select_all), the on_click callback of Select All / Deselect All.
update_selections(select_all, total) == [i \in 1..total |-> select_all]

\* st.number_input(min_value=1, ..., key=...): the value under the key, or
\* min_value when the key holds none.
number_input(v, min_value) == IF v = NoValue THEN min_value ELSE v

\* What, apart from its key, identifies a checkbox to the framework: nothing in a
\* build that identifies a keyed widget by its key (FALSE stands for that), its
\* `value` argument in a build that hashes the arguments of the call.
widget_id(value) == IF keyIdentity THEN FALSE ELSE value

\* st.checkbox("select", value=value, key=f"cb_{i}"): a widget the framework already
\* holds keeps its state, whatever `value` is; a new one starts at `value`.
checkbox(w, i, value) ==
    IF i <= Len(w) /\ w[i].id = widget_id(value)
       THEN w[i]
       ELSE [val |-> value, id |-> widget_id(value)]

\* The checkbox loop over the first n rows: the widgets after it (selections[i] is
\* assigned w[i].val).
checkbox_loop(w, sel, n) == [i \in 1..n |-> checkbox(w, i, sel[i])]

(***************************************************************************)
(* Link dispatcher (lines 106-114, 126-141)                                *)
(***************************************************************************)
NoDispatch == [message |-> "loaded", opened |-> <<>>]

\* The Open Selected Links handler.  search_urls[i] raises IndexError for a set
\* flag beyond the list.
open_selected(urls, sel) ==
    IF \E i \in DOMAIN sel : sel[i] /\ i > Len(urls)
       THEN [message |-> "index_error", opened |-> <<>>]
    ELSE LET selected_urls == Pick(urls, sel, 1)
         IN IF selected_urls # <<>>
               THEN [message |-> "opened_selected", opened |-> selected_urls]
               ELSE [message |-> "no_selection", opened |-> <<>>]

\* range_rejected with > for >=.
range_rejected_strict(start_idx, end_idx) == start_idx > end_idx

\* The order check of the Open Range handler.
range_rejected(start_idx, end_idx) == start_idx >= end_idx

\* The Open Range handler.
open_range(urls, start, end) ==
    LET start_idx == start - 1
        end_idx   == end
        range_urls == Slice(urls, start_idx, end_idx)
    IN IF range_rejected(start_idx, end_idx)
          THEN [message |-> "range_order", opened |-> <<>>]
       ELSE IF range_urls # <<>>
          THEN [message |-> "opened_range", opened |-> range_urls]
       ELSE [message |-> "range_not_found", opened |-> <<>>]

(***************************************************************************)
(* One execution of the script                                             *)
(***************************************************************************)
\* The end of an execution: the session state where the checkbox loop has assigned
\* the first n flags.  st.session_state.selections[i] raises IndexError when the
\* list is shorter than the Dataset, which ends the execution there.
finished(total, s1, start, end, out, w1) ==
    [selections  |-> [i \in DOMAIN s1.selections |->
                        IF i <= Len(w1) THEN w1[i].val ELSE s1.selections[i]],
     start_range |-> start,
     end_range   |-> end,
     cb          |-> w1,
     message     |-> IF out.message # "index_error" /\ Len(s1.selections) < total
                        THEN "index_error" ELSE out.message,
     opened      |-> out.opened]

\* The execution from line 77 on, for the links of the Dataset: the session state,
\* the widgets and the outcome it ends with.  click is the button pressed, if any.
dispatched(urls, s1, start, end, w, click) ==
    finished(Len(urls), s1, start, end,
             IF click = "open_selected" THEN open_selected(urls, s1.selections)
             ELSE IF click = "open_range" THEN open_range(urls, start, end)
             ELSE NoDispatch,
             checkbox_loop(w, s1.selections, Min(Len(urls), Len(s1.selections))))

initialised(urls, s1, w, click) ==
    dispatched(urls, s1, number_input(s1.start_range, 1), number_input(s1.end_range, 1),
               w, click)

body(urls, sel, st, en, w, click) ==
    initialised(urls, session_init(sel, st, en, Len(urls)), w, click)

\* stopped with the selection flags cleared as well.
stopped_resetting(status, sel, st, en, w, discard) ==
    [selections  |-> <<>>,
     start_range |-> IF discard THEN NoValue ELSE st,
     end_range   |-> IF discard THEN NoValue ELSE en,
     cb          |-> IF discard THEN <<>> ELSE w,
     message     |-> status,
     opened      |-> <<>>]

\* An execution that ends at st.stop() (lines 49, 53, 72) or in the else branch
\* (line 159) before any widget of the selection state is created.  discard: the
\* framework drops the state of the keyed widgets the execution did not create.
stopped(status, sel, st, en, w, discard) ==
    [selections  |-> sel,
     start_range |-> IF discard THEN NoValue ELSE st,
     end_range   |-> IF discard THEN NoValue ELSE en,
     cb          |-> IF discard THEN <<>> ELSE w,
     message     |-> status,
     opened      |-> <<>>]

\* One execution of the script on `file`, from the session state (sel, st, en, w).
Run(file, sel, st, en, w, click, ev) ==
    \E ld \in {load(file)} :
    \E discard \in (IF file.present /\ ld.status # "ok" THEN BOOLEAN ELSE {TRUE}) :
    \E res \in {IF ~file.present THEN stopped("no_file", sel, st, en, w, TRUE)
                ELSE IF ld.status # "ok" THEN stopped(ld.status, sel, st, en, w, discard)
                ELSE body(search_urls(ld.df), sel, st, en, w, click)} :
        /\ uploaded_file' = file
        /\ selections' = res.selections
        /\ start_range' = res.start_range
        /\ end_range' = res.end_range
        /\ cb' = res.cb
        /\ message' = res.message
        /\ opened' = res.opened
        /\ event' = ev
        /\ keyIdentity' = keyIdentity

(***************************************************************************)
(* Interactions                                                            *)
(***************************************************************************)
\* The outcomes of an execution that reached the end of the script (a successful
\* load), and of a load that failed.
RenderedOutcomes == {"loaded", "opened_selected", "no_selection", "range_order",
                     "opened_range", "range_not_found"}
FailedOutcomes == {"read_error", "schema_error", "no_valid_data"}

Rendered == message \in RenderedOutcomes
Failed == message \in FailedOutcomes

\* The Dataset and the links of the last execution.
Dataset == load(uploaded_file).df
Urls == search_urls(Dataset)
Total == Len(Urls)

\* A file is uploaded, or replaces the one held.
Upload ==
    \E f \in Files :
        Run(f, selections, start_range, end_range, cb, "none", "upload")

\* The file is removed from the uploader.
RemoveFile ==
    /\ uploaded_file.present
    /\ Run(NoFile, selections, start_range, end_range, cb, "none", "remove")

\* Select All / Deselect All: the callback runs, then the script.
SetAll ==
    /\ Rendered
    /\ \E v \in BOOLEAN :
        Run(uploaded_file, update_selections(v, Total), start_range, end_range, cb,
            "none", IF v THEN "select_all" ELSE "deselect_all")

\* A checkbox is ticked or cleared in the browser.
Toggle ==
    /\ Rendered
    /\ \E i \in 1..Len(cb) :
        Run(uploaded_file, selections, start_range, end_range,
            [cb EXCEPT ![i].val = ~cb[i].val], "none", "edit")

\* "From link #" is edited; the widget keeps the value within [min_value, max_value].
SetStart ==
    /\ Rendered
    /\ \E v \in 1..Total :
        Run(uploaded_file, selections, v, end_range, cb, "none", "edit")

\* "To link #" is edited.
SetEnd ==
    /\ Rendered
    /\ \E v \in 1..Total :
        Run(uploaded_file, selections, start_range, v, cb, "none", "edit")

\* Open Selected Links is pressed.
ClickOpenSelected ==
    /\ Rendered
    /\ Run(uploaded_file, selections, start_range, end_range, cb, "open_selected",
           "open_selected")

\* Open Range is pressed.
ClickOpenRange ==
    /\ Rendered
    /\ Run(uploaded_file, selections, start_range, end_range, cb, "open_range",
           "open_range")

Init ==
    /\ uploaded_file = NoFile
    /\ selections = <<>>
    /\ start_range = NoValue
    /\ end_range = NoValue
    /\ cb = <<>>
    /\ message = "no_file"
    /\ opened = <<>>
    /\ event = "start"
    /\ keyIdentity \in BOOLEAN

Next ==
    \/ Upload
    \/ RemoveFile
    \/ SetAll
    \/ Toggle
    \/ SetStart
    \/ SetEnd
    \/ ClickOpenSelected
    \/ ClickOpenRange

Spec == Init /\ [][Next]_vars

(***************************************************************************)
(* The loader alone: the first execution of the script on any file         *)
(***************************************************************************)
CleanInit ==
    /\ uploaded_file \in GoodFiles \cup BadFiles
    /\ selections = <<>>
    /\ start_range = NoValue
    /\ end_range = NoValue
    /\ cb = <<>>
    /\ message = "uploaded"
    /\ opened = <<>>
    /\ event = "start"
    /\ keyIdentity \in BOOLEAN

FirstRun ==
    /\ message = "uploaded"
    /\ Run(uploaded_file, selections, start_range, end_range, cb, "none", "upload")

SpecClean == CleanInit /\ [][FirstRun]_vars

(***************************************************************************)
(* Properties                                                              *)
(***************************************************************************)
AllFalse(n) == [i \in 1..n |-> FALSE]

\* The links and the size of the Dataset of a file.
UrlsOf(file) == search_urls(load(file).df)
TotalOf(file) == Len(UrlsOf(file))

\* The positions of the set flags, and the rank of a set flag among them.
Chosen(flags) == {i \in DOMAIN flags : flags[i]}
Rank(flags, i) == Cardinality({j \in Chosen(flags) : j <= i})

\* The rows of a file with both cells non-empty after trimming, trimmed, in order.
RECURSIVE CompleteRows(_)
CompleteRows(lines) ==
    IF lines = <<>> THEN <<>>
    ELSE IF strip(Head(lines)[1]) = <<>> \/ strip(Head(lines)[2]) = <<>>
            THEN CompleteRows(Tail(lines))
    ELSE <<[account |-> strip(Head(lines)[1]), parent |-> strip(Head(lines)[2])]>>
            \o CompleteRows(Tail(lines))

\* C1: a successful load of a Dataset of the size of the previous one leaves every
\* selection flag as it was; a successful load of another size (or the first one)
\* leaves the flags all false, of the new length, and the range cursors at 1 and
\* min(10, size).
C1_LoadKeepsOrResets ==
    [][(event' = "upload" /\ message' \in RenderedOutcomes) =>
          IF Len(selections) = TotalOf(uploaded_file')
             THEN selections' = selections
             ELSE /\ selections' = AllFalse(TotalOf(uploaded_file'))
                  /\ start_range' = 1
                  /\ end_range' = Min(10, TotalOf(uploaded_file'))]_vars

\* C2: after every successful execution the selection flags, the queries, the
\* links and the cleaned Dataset have the same length.
C2_FlagsMatchDataset ==
    Rendered => /\ Len(selections) = Len(Dataset)
                /\ Len(search_queries(Dataset)) = Len(Dataset)
                /\ Len(Urls) = Len(Dataset)

\* C2 witness: cleaning has dropped a line of a file of three, and Select All has
\* set the two flags of its Dataset.
C2_Witness ==
    /\ Rendered /\ event = "select_all"
    /\ Len(Dataset) = 2 /\ Len(uploaded_file.lines) = 3
    /\ selections = <<TRUE, TRUE>>

\* C3: Open Range with start >= end, start = end included, reports the range-order
\* warning and opens nothing.
C3_RejectsStartNotBelowEnd ==
    (event = "open_range" /\ start_range >= end_range)
        => (message = "range_order" /\ opened = <<>>)

\* C4: Open Range with 1 <= start < end <= size opens exactly the links at the
\* positions start..end, in the order of the Dataset.
C4_RangeOpensExactly ==
    (event = "open_range" /\ 1 <= start_range /\ start_range < end_range
                          /\ end_range <= Total)
        => /\ message = "opened_range"
           /\ Len(opened) = end_range - start_range + 1
           /\ \A k \in 1..Len(opened) : opened[k] = Urls[start_range + k - 1]

\* C4 witness: links 2 through 3 of a Dataset of three rows have been opened.
C4_Witness ==
    /\ event = "open_range" /\ Total = 3
    /\ start_range = 2 /\ end_range = 3
    /\ opened = <<Urls[2], Urls[3]>>

\* C5: Open Selected Links opens exactly the links whose flag is set when it is
\* pressed, in the order of the Dataset; with no flag set it opens nothing and
\* reports that nothing was selected.
C5_SelectionOpensExactly ==
    [][(event' = "open_selected") =>
          /\ Len(opened') = Cardinality(Chosen(selections))
          /\ \A i \in Chosen(selections) :
                opened'[Rank(selections, i)] = UrlsOf(uploaded_file')[i]
          /\ message' = IF Chosen(selections) = {} THEN "no_selection"
                        ELSE "opened_selected"]_vars

\* C5 witness: with the flags of rows 3 and 1 set (in that order of ticking or any
\* other), links 1 and 3 have been opened.
C5_Witness ==
    /\ event = "open_selected" /\ Total = 3
    /\ selections = <<TRUE, FALSE, TRUE>>
    /\ opened = <<Urls[1], Urls[3]>>

\* C6: a load of a file with both columns keeps exactly the rows whose Account Name
\* and Parent Name are both present and non-empty after trimming, in order; when
\* none is, it fails.
C6_CleaningKeepsCompleteRows ==
    (event = "upload" /\ has_schema(read_csv(uploaded_file))
                      /\ uploaded_file.lines # <<>>)
        => IF CompleteRows(uploaded_file.lines) = <<>>
              THEN message = "no_valid_data"
              ELSE Rendered /\ Dataset = CompleteRows(uploaded_file.lines)

\* C7: after Select All every flag is set, and after Deselect All none is.
C7_SetAllSetsEveryFlag ==
    /\ event = "select_all" => \A i \in 1..Total : selections[i]
    /\ event = "deselect_all" => \A i \in 1..Total : ~selections[i]

\* C8: after every successful execution both range cursors lie in 1..size.
C8_CursorsInRange ==
    Rendered => /\ 1 <= start_range /\ start_range <= Total
                /\ 1 <= end_range /\ end_range <= Total

\* C8 witness: the range handler has read the cursors 3 and 1 on three rows.
C8_Witness ==
    /\ event = "open_range" /\ Total = 3
    /\ start_range = 3 /\ end_range = 1

\* C9 as stated: a load that fails leaves the flags and both range cursors as they
\* were and opens nothing.
C9_FailedLoadKeepsAll ==
    [][message' \in FailedOutcomes =>
                  /\ selections' = selections
                  /\ start_range' = start_range
                  /\ end_range' = end_range
                  /\ opened' = <<>>]_vars

\* C9 as amended: a load that fails leaves the selection flags as they were and
\* opens nothing, and a successful load of the size the flags have leaves them as
\* they were.
C9_FailedLoadKeepsFlags ==
    [][/\ message' \in FailedOutcomes => (selections' = selections /\ opened' = <<>>)
       /\ (event' = "upload" /\ message' \in RenderedOutcomes
                             /\ Len(selections) = TotalOf(uploaded_file'))
             => selections' = selections]_vars

\* C9 witness: a load has failed while a flag was set.
C9_Witness ==
    /\ Failed /\ event = "upload"
    /\ \E i \in DOMAIN selections : selections[i]

\* C10: whenever Open Range passes the order check, it opens at least one link:
\* the outcome "Could not find links for the specified range" is never reported.
C10_RangeNeverEmpty ==
    /\ message # "range_not_found"
    /\ (event = "open_range" /\ ~range_rejected(start_range - 1, end_range))
          => (message = "opened_range" /\ opened # <<>>)

\* C10 witness: Open Range on equal cursors has opened one link.
C10_Witness ==
    /\ event = "open_range" /\ start_range = end_range
    /\ message = "opened_range" /\ Len(opened) = 1

====
